---- MODULE Spec2Model ----
(***************************************************************************)
(* A model of the three Streamlit pages of absurd-MI:                      *)
(*   src/app.py              "Invoicing": full fiscal year, one query      *)
(*   src/pages/1_Revenue.py  "Revenue": year to date, four queries         *)
(*   src/pages/2_Cashflow.py "Cashflow": two cached loaders                *)
(* Dates are calendar dates (year, month, day); datetime.today() is read   *)
(* at day granularity, which is all the pages use (strftime('%Y-%m-%d'),   *)
(* month-start buckets).  Amounts are integers.  A percentage is kept as   *)
(* the exact fraction num/den.  The BigQuery backend is the environment:   *)
(* a query either raises or returns a bounded sequence of rows.            *)
(* In 1_Revenue.py the statements of lines 113-268 are taken in textual    *)
(* order as the body of the try block of line 111.                         *)
(***************************************************************************)
EXTENDS Integers, Sequences, FiniteSets, TLC

VARIABLES today, app, rev, cash, now, cache, fetched

vars == <<today, app, rev, cash, now, cache, fetched>>

(* ------------------------------ bounds --------------------------------- *)
FirstYear == 2023
NumYears == 2
MaxRows == 2
MaxAmount == 2
MaxClock == 1200
TickSeconds == 300

\* @st.cache_data(ttl=600)
TTL == 600

(* ------------------------- calendar arithmetic ------------------------- *)
Date(y, m, d) == [year |-> y, month |-> m, day |-> d]

NoDate == Date(0, 0, 0)

IsLeap(y) == (y % 4 = 0 /\ y % 100 # 0) \/ y % 400 = 0

DaysInMonth(y, m) ==
    IF m = 2 THEN (IF IsLeap(y) THEN 29 ELSE 28)
    ELSE IF m \in {4, 6, 9, 11} THEN 30 ELSE 31

DateLE(a, b) ==
    \/ a.year < b.year
    \/ a.year = b.year /\ a.month < b.month
    \/ a.year = b.year /\ a.month = b.month /\ a.day <= b.day

MonthIndex(d) == d.year * 12 + (d.month - 1)

MonthStart(i) == Date(i \div 12, (i % 12) + 1, 1)

MonthAbbr ==
    <<"Jan", "Feb", "Mar", "Apr", "May", "Jun",
      "Jul", "Aug", "Sep", "Oct", "Nov", "Dec">>

\* strftime("%b-%Y")
strftime_b_Y(d) == <<MonthAbbr[d.month], d.year>>

\* strftime('%Y-%m-%d')
strftime_Y_m_d(d) == <<d.year, d.month, d.day>>

\* pd.to_datetime(s, format='%Y-%m') of a 'YYYY-MM' string <<year, month>>
to_datetime_Y_m(s) == Date(s[1], s[2], 1)

\* pd.date_range(start, end, freq="MS"): every month start t, start <= t <= end
date_range_MS_short(start, end) ==
    LET lo == IF start.day = 1 THEN MonthIndex(start) ELSE MonthIndex(start) + 1
        hi == MonthIndex(end) - 1
    IN  IF hi < lo THEN <<>> ELSE [i \in 1..(hi - lo + 1) |-> MonthStart(lo + i - 1)]

date_range_MS(start, end) ==
    LET lo == IF start.day = 1 THEN MonthIndex(start) ELSE MonthIndex(start) + 1
        hi == MonthIndex(end)
    IN  IF hi < lo THEN <<>> ELSE [i \in 1..(hi - lo + 1) |-> MonthStart(lo + i - 1)]

\* pd.DataFrame({"month": months_in_fy, "month_label": [strftime("%b-%Y") ...]})
months_df_of(months_in_fy) ==
    [i \in 1..Len(months_in_fy) |->
        [month |-> months_in_fy[i], month_label |-> strftime_b_Y(months_in_fy[i])]]

\* pd.Timestamp(d) - pd.DateOffset(years=1): same month and day one year
\* earlier, the day clipped to the length of that month
minus_one_year(d) ==
    Date(d.year - 1, d.month,
         IF d.day > DaysInMonth(d.year - 1, d.month)
         THEN DaysInMonth(d.year - 1, d.month) ELSE d.day)

(* ------------------- fiscal year, one copy per page -------------------- *)
app_start_wrong_branch(t) ==
    IF t.month > 10 THEN Date(t.year, 10, 1) ELSE Date(t.year - 1, 10, 1)

app_start_of_financial_year(t) ==
    IF t.month >= 10 THEN Date(t.year, 10, 1) ELSE Date(t.year - 1, 10, 1)

app_end_of_financial_year(t) ==
    IF t.month >= 10 THEN Date(t.year + 1, 9, 30) ELSE Date(t.year, 9, 30)

rev_start_of_financial_year(t) ==
    IF t.month >= 10 THEN Date(t.year, 10, 1) ELSE Date(t.year - 1, 10, 1)

rev_end_of_financial_year(t) == t

cash_start_of_financial_year(t) ==
    IF t.month >= 10 THEN Date(t.year, 10, 1) ELSE Date(t.year - 1, 10, 1)

(* ------------------------------- dates --------------------------------- *)
Years == FirstYear..(FirstYear + NumYears - 1)

ReferenceDates ==
    {x \in {Date(y, m, d) : y \in Years, m \in 1..12, d \in 1..31} :
        x.day <= DaysInMonth(x.year, x.month)}

\* the days on which the pages' data paths are explored: one in the first
\* month of a fiscal year, one in its sixth month
SampleDates == {Date(FirstYear, 10, 15), Date(FirstYear + 1, 3, 1)}

(* ----------------------------- page state ------------------------------ *)
NoPercent == [defined |-> FALSE, num |-> 0, den |-> 1]

AppIdle ==
    [pc |-> "idle", start_of_financial_year |-> NoDate,
     end_of_financial_year |-> NoDate, months_df |-> <<>>,
     returned |-> FALSE, rows |-> <<>>, result |-> <<>>, total_invoiced |-> 0,
     client |-> "none", missing |-> {}, reported |-> {},
     out |-> <<>>, error |-> "none"]

RevIdle ==
    [pc |-> "idle", start_of_financial_year |-> NoDate,
     end_of_financial_year |-> NoDate,
     start_of_previous_financial_year |-> NoDate,
     end_of_previous_financial_year |-> NoDate,
     months_df |-> <<>>, current_data |-> <<>>,
     total_invoiced_current |-> 0, total_invoiced_previous |-> 0,
     percent_diff |-> NoPercent,
     clients_returned |-> 0, current_clients_df |-> <<>>, prev_clients_df |-> <<>>,
     join_order |-> <<>>, clients_merged |-> <<>>,
     client |-> "none", missing |-> {}, reported |-> {},
     out |-> <<"title">>, error |-> "none"]

CashIdle ==
    [pc |-> "idle", start_date_str |-> <<0, 0, 0>>,
     day_load |-> "none", day_at |-> 0, day_df |-> <<>>,
     month_load |-> "none", month_at |-> 0, month_df |-> <<>>,
     client |-> "none", missing |-> {}, reported |-> {},
     out |-> <<>>, error |-> "none"]

Init ==
    /\ today \in ReferenceDates
    /\ app = AppIdle
    /\ rev = RevIdle
    /\ cash = CashIdle
    /\ now = 0
    /\ cache = <<>>
    /\ fetched = <<>>

InitSample == Init /\ today \in SampleDates

(* --------------------------- calendar steps ---------------------------- *)
\* app.py lines 15-38
AppCalendar ==
    /\ app.pc = "idle"
    /\ app' = [app EXCEPT
                !.pc = "query",
                !.start_of_financial_year = app_start_of_financial_year(today),
                !.end_of_financial_year = app_end_of_financial_year(today),
                !.months_df = months_df_of(date_range_MS(
                                  app_start_of_financial_year(today),
                                  app_end_of_financial_year(today)))]
    /\ UNCHANGED <<today, rev, cash, now, cache, fetched>>

\* 1_Revenue.py lines 29-43
RevCalendar ==
    /\ rev.pc = "idle"
    /\ rev' = [rev EXCEPT
                !.pc = "q1",
                !.start_of_financial_year = rev_start_of_financial_year(today),
                !.end_of_financial_year = rev_end_of_financial_year(today),
                !.start_of_previous_financial_year =
                    minus_one_year(rev_start_of_financial_year(today)),
                !.end_of_previous_financial_year =
                    minus_one_year(rev_end_of_financial_year(today))]
    /\ UNCHANGED <<today, app, cash, now, cache, fetched>>

\* 1_Revenue.py lines 117-121 applied to the range of lines 29-35
RevMonths ==
    /\ rev.pc = "q1"
    /\ rev' = [rev EXCEPT
                !.pc = "months",
                !.months_df = months_df_of(date_range_MS(
                                  rev.start_of_financial_year,
                                  rev.end_of_financial_year))]
    /\ UNCHANGED <<today, app, cash, now, cache, fetched>>

\* 2_Cashflow.py lines 104-112
CashCalendar ==
    /\ cash.pc = "idle"
    /\ cash' = [cash EXCEPT
                !.pc = "day",
                !.start_date_str =
                    strftime_Y_m_d(cash_start_of_financial_year(today)),
                !.out = <<"title", "markdown">>]
    /\ UNCHANGED <<today, app, rev, now, cache, fetched>>

NextFiscal == AppCalendar \/ RevCalendar \/ RevMonths \/ CashCalendar

SpecFiscal == Init /\ [][NextFiscal]_vars

\* C6: every page derives the fiscal-year start of the reference date as
\* October 1 of its year when its month is 10..12 and October 1 of the year
\* before when its month is 1..9; app.py ends the year on September 30 of
\* the year after the start, 1_Revenue.py ends it on the reference date,
\* and start <= reference date <= full-year end.
C6_FiscalYearRule ==
    LET expected == IF today.month \in 10..12
                    THEN Date(today.year, 10, 1)
                    ELSE Date(today.year - 1, 10, 1)
    IN  /\ today.month \in 1..12
        /\ app.pc # "idle" =>
              /\ app.start_of_financial_year = expected
              /\ app.end_of_financial_year = Date(expected.year + 1, 9, 30)
              /\ DateLE(app.start_of_financial_year, today)
              /\ DateLE(today, app.end_of_financial_year)
        /\ rev.pc # "idle" =>
              /\ rev.start_of_financial_year = expected
              /\ rev.end_of_financial_year = today
              /\ DateLE(rev.start_of_financial_year, today)
        /\ cash.pc # "idle" =>
              cash.start_date_str = <<expected.year, 10, 1>>

C6_Witness ==
    /\ app.pc # "idle" /\ rev.pc # "idle" /\ cash.pc # "idle"
    /\ today.month = 9 /\ today.day = 30
    /\ app.start_of_financial_year.year = today.year - 1

BucketsSpan(df, start, end) ==
    /\ Len(df) = (end.year - start.year) * 12 + (end.month - start.month) + 1
    /\ \A i \in 1..Len(df) :
          LET k == (start.month - 1) + (i - 1)
          IN  /\ df[i].month = Date(start.year + (k \div 12), (k % 12) + 1, 1)
              /\ df[i].month_label = <<MonthAbbr[(k % 12) + 1], start.year + (k \div 12)>>
    /\ \A i, j \in 1..Len(df) :
          i < j => /\ df[i].month_label # df[j].month_label
                   /\ DateLE(df[i].month, df[j].month)
                   /\ df[i].month # df[j].month

\* C7: the month buckets built for a range hold one bucket per calendar
\* month from the month of the start through the month of the end, with
\* unique labels in chronological order; for the full fiscal year these are
\* the 12 buckets October to September.
C7_MonthBuckets ==
    /\ app.pc # "idle" =>
          /\ BucketsSpan(app.months_df, app.start_of_financial_year,
                         app.end_of_financial_year)
          /\ Len(app.months_df) = 12
          /\ app.months_df[1].month_label[1] = "Oct"
          /\ app.months_df[12].month_label[1] = "Sep"
    /\ rev.pc = "months" =>
          BucketsSpan(rev.months_df, rev.start_of_financial_year,
                      rev.end_of_financial_year)

C7_Witness ==
    /\ app.pc # "idle" /\ Len(app.months_df) = 12
    /\ rev.pc = "months" /\ Len(rev.months_df) = 5
    /\ rev.months_df[5].month_label = <<"Feb", FirstYear + 1>>
    /\ today.day > 1

(* ------------------------- the query backend --------------------------- *)
\* client.query(...) raising
Raise == [ok |-> FALSE, rows |-> <<>>]

Returned(rows) == [ok |-> TRUE, rows |-> rows]

SeqsUpTo(S, n) == UNION {[1..k -> S] : k \in 0..n}

\* 'YYYY-MM' keys a monthly query may return: the month before the fiscal
\* year of `start`, its first month and its second month
MonthKeys(start) ==
    {<<MonthStart(MonthIndex(start) + k).year, MonthStart(MonthIndex(start) + k).month>> :
        k \in {-1, 0, 1}}

MonthlyRows(start) ==
    SeqsUpTo([month : MonthKeys(start), total_amount : 0..MaxAmount], MaxRows)

QueryOutcomes(rowsets) == {Raise} \cup {Returned(r) : r \in rowsets}

(* --------------------------- dataframe steps --------------------------- *)
RECURSIVE SumAmounts(_)
\* Series.sum() of the total_amount column (NaN skipped)
SumAmounts(df) ==
    IF df = <<>> THEN 0
    ELSE (IF Head(df).isna THEN 0 ELSE Head(df).total_amount) + SumAmounts(Tail(df))

\* result['month'] = pd.to_datetime(result['month'], format='%Y-%m')
month_to_datetime(rows) ==
    [i \in 1..Len(rows) |->
        [month |-> to_datetime_Y_m(rows[i].month), total_amount |-> rows[i].total_amount]]

RECURSIVE merge_left_from(_, _, _)
merge_left_from(months_df, result, i) ==
    IF i > Len(months_df) THEN <<>>
    ELSE LET b == months_df[i]
             matches == SelectSeq(result, LAMBDA r : r.month = b.month)
             here == IF matches = <<>>
                     THEN <<[month |-> b.month, month_label |-> b.month_label,
                             total_amount |-> 0, isna |-> TRUE]>>
                     ELSE [j \in 1..Len(matches) |->
                             [month |-> b.month, month_label |-> b.month_label,
                              total_amount |-> matches[j].total_amount, isna |-> FALSE]]
         IN  here \o merge_left_from(months_df, result, i + 1)

\* months_df.merge(result, on='month', how='left'): the buckets in order,
\* each once per matching row, or once with NaN when no row matches
merge_left(months_df, result) == merge_left_from(months_df, result, 1)

\* result['total_amount'].fillna(0)
fillna_total_amount(df) ==
    [i \in 1..Len(df) |->
        IF df[i].isna THEN [df[i] EXCEPT !.total_amount = 0, !.isna = FALSE] ELSE df[i]]

RECURSIVE argsort_orders(_, _)
\* the index orders an argsort of `keys` may return: ascending in the key,
\* equal keys in any order (kind='quicksort' is not stable)
argsort_orders(keys, remaining) ==
    IF remaining = {} THEN {<<>>}
    ELSE LET least == {i \in remaining : \A j \in remaining : keys[i] <= keys[j]}
         IN  UNION {{<<i>> \o t : t \in argsort_orders(keys, remaining \ {i})} :
                        i \in least}

\* result.sort_values(by='month')
sort_values_month(df) ==
    {[i \in 1..Len(df) |-> df[p[i]]] :
        p \in argsort_orders([i \in 1..Len(df) |-> MonthIndex(df[i].month)],
                             1..Len(df))}

(* ------------------------------- app.py -------------------------------- *)
\* app.py lines 57-107
AppRender ==
    /\ app.pc = "query"
    /\ \E q \in QueryOutcomes(MonthlyRows(app.start_of_financial_year)) :
          IF ~q.ok
          THEN app' = [app EXCEPT !.pc = "done", !.error = "query",
                                  !.out = <<"error">>]
          ELSE IF q.rows = <<>>
          THEN app' = [app EXCEPT !.pc = "done", !.returned = TRUE,
                                  !.error = "KeyError: 'month'",
                                  !.out = <<"error">>]
          ELSE \E result \in sort_values_month(fillna_total_amount(
                                merge_left(app.months_df, month_to_datetime(q.rows)))) :
                 app' = [app EXCEPT
                           !.pc = "done", !.returned = TRUE, !.rows = q.rows,
                           !.result = result,
                           !.total_invoiced = SumAmounts(result),
                           !.out = <<"title", "header", "metric", "altair_chart">>]
    /\ UNCHANGED <<today, rev, cash, now, cache, fetched>>

NextApp == AppCalendar \/ AppRender

SpecApp == InitSample /\ [][NextApp]_vars

RECURSIVE RowsTotalFor(_, _)
\* the sum of the amounts of the query rows of month m
RowsTotalFor(rows, m) ==
    IF rows = <<>> THEN 0
    ELSE (IF to_datetime_Y_m(Head(rows).month) = m THEN Head(rows).total_amount ELSE 0)
         + RowsTotalFor(Tail(rows), m)

\* C3: when the monthly-totals query succeeds with zero rows, the render
\* does not end in the error state and shows one entry per month bucket of
\* the fiscal range, every amount 0.
C3_EmptyResultIsAllZeroSeries ==
    (app.pc = "done" /\ app.returned /\ app.rows = <<>>) =>
        /\ app.error = "none"
        /\ Len(app.result) = Len(app.months_df)
        /\ \A i \in 1..Len(app.result) :
              /\ app.result[i].month = app.months_df[i].month
              /\ app.result[i].total_amount = 0

\* C4: for any monthly rows, rows sharing a month and rows outside the
\* range included, the gap-filled series has exactly one entry per month
\* bucket, in bucket order, whose amount is the sum of the rows of that
\* month (0 when there is none).
C4_GapFilledSeries ==
    (app.pc = "done" /\ app.returned) =>
        /\ Len(app.result) = Len(app.months_df)
        /\ \A i \in 1..Len(app.result) :
              /\ app.result[i].month = app.months_df[i].month
              /\ app.result[i].month_label = app.months_df[i].month_label
              /\ app.result[i].total_amount =
                    RowsTotalFor(app.rows, app.months_df[i].month)

(* --------------------------- 1_Revenue.py ------------------------------ *)
\* client names in lexicographic order
ClientNames == <<"Acme", "Beta">>

ClientSet == {ClientNames[i] : i \in 1..Len(ClientNames)}

\* the rows of a per-client query (GROUP BY client_name ORDER BY client_name)
ClientFrame(f) ==
    LET names == SelectSeq(ClientNames, LAMBDA n : n \in DOMAIN f)
    IN  [i \in 1..Len(names) |-> [client_name |-> names[i], amount |-> f[names[i]]]]

ClientFrames ==
    UNION {{ClientFrame(f) : f \in [S -> 0..MaxAmount]} : S \in SUBSET ClientSet}

FrameKeys(df) == {df[i].client_name : i \in 1..Len(df)}

FrameAmount(df, name) ==
    LET hit == SelectSeq(df, LAMBDA r : r.client_name = name) IN hit[1].amount

\* pd.merge(current_clients_df, prev_clients_df, on='client_name', how='outer'):
\* the union of the keys in lexicographic order, NaN on the side lacking the key
merge_outer(current_clients_df, prev_clients_df) ==
    LET keys == SelectSeq(ClientNames,
                    LAMBDA n : n \in FrameKeys(current_clients_df)
                                       \cup FrameKeys(prev_clients_df))
    IN  [i \in 1..Len(keys) |->
            LET inCur == keys[i] \in FrameKeys(current_clients_df)
                inPrev == keys[i] \in FrameKeys(prev_clients_df)
            IN  [client_name |-> keys[i],
                 revenue_current |->
                    IF inCur THEN FrameAmount(current_clients_df, keys[i]) ELSE 0,
                 current_isna |-> ~inCur,
                 revenue_previous |->
                    IF inPrev THEN FrameAmount(prev_clients_df, keys[i]) ELSE 0,
                 previous_isna |-> ~inPrev]]

\* .fillna(0)
fillna_clients(df) ==
    [i \in 1..Len(df) |->
        [df[i] EXCEPT
            !.revenue_current = IF df[i].current_isna THEN 0 ELSE @,
            !.current_isna = FALSE,
            !.revenue_previous = IF df[i].previous_isna THEN 0 ELSE @,
            !.previous_isna = FALSE]]

\* 1_Revenue.py lines 145-148
calc_percentage_diff(row) ==
    IF row.revenue_previous = 0 THEN NoPercent
    ELSE [defined |-> TRUE,
          num |-> (row.revenue_current - row.revenue_previous) * 100,
          den |-> row.revenue_previous]

\* 1_Revenue.py lines 130-134
percent_diff_of(total_invoiced_current, total_invoiced_previous) ==
    IF total_invoiced_previous = 0
    THEN [defined |-> TRUE, num |-> 0, den |-> 1]
    ELSE [defined |-> TRUE,
          num |-> (total_invoiced_current - total_invoiced_previous) * 100,
          den |-> total_invoiced_previous]

\* 1_Revenue.py lines 142-156: Difference, % Difference, renamed columns
comparison_rows(df) ==
    [i \in 1..Len(df) |->
        [Client_name |-> df[i].client_name,
         Revenue_YTD |-> df[i].revenue_current,
         Revenue_previous_YTD |-> df[i].revenue_previous,
         Difference |-> df[i].revenue_current - df[i].revenue_previous,
         Pct_Difference |-> calc_percentage_diff(df[i])]]

\* clients_merged.sort_values(by='Revenue YTD', ascending=False)
sort_values_revenue_desc(df) ==
    {[i \in 1..Len(df) |-> df[p[i]]] :
        p \in argsort_orders([i \in 1..Len(df) |-> 0 - df[i].Revenue_YTD],
                             1..Len(df))}

\* 1_Revenue.py lines 162-169
totals_row(total_invoiced_current, total_invoiced_previous, percent_diff) ==
    [Client_name |-> "Total",
     Revenue_YTD |-> total_invoiced_current,
     Revenue_previous_YTD |-> total_invoiced_previous,
     Difference |-> total_invoiced_current - total_invoiced_previous,
     Pct_Difference |-> percent_diff]

\* "% Difference": lambda x: "-" if pd.isnull(x) else f"{x:,.1f}%"
format_pct(x) == IF ~x.defined THEN "-" ELSE "x.x%"

RevError(kind) == [rev EXCEPT !.pc = "done", !.error = kind, !.out = <<"title", "error">>]

\* 1_Revenue.py line 113
RevQ1 ==
    /\ rev.pc = "q1"
    /\ \E q \in QueryOutcomes(MonthlyRows(rev.start_of_financial_year)) :
          IF ~q.ok THEN rev' = RevError("query")
          ELSE rev' = [rev EXCEPT !.pc = "q2", !.current_data = q.rows]
    /\ UNCHANGED <<today, app, cash, now, cache, fetched>>

\* 1_Revenue.py lines 114-134
RevQ2 ==
    /\ rev.pc = "q2"
    /\ \E q \in QueryOutcomes(MonthlyRows(rev.start_of_previous_financial_year)) :
          IF ~q.ok THEN rev' = RevError("query")
          ELSE IF rev.current_data = <<>> THEN rev' = RevError("KeyError: 'month'")
          ELSE LET months_df == months_df_of(date_range_MS(
                                    rev.start_of_financial_year,
                                    rev.end_of_financial_year))
                   previous_data == [i \in 1..Len(q.rows) |->
                                        [total_amount |-> q.rows[i].total_amount,
                                         isna |-> FALSE]]
               IN  \E current_data \in sort_values_month(fillna_total_amount(
                          merge_left(months_df, month_to_datetime(rev.current_data)))) :
                     LET total_invoiced_current == SumAmounts(current_data)
                         total_invoiced_previous ==
                             IF previous_data # <<>> THEN SumAmounts(previous_data) ELSE 0
                     IN  rev' = [rev EXCEPT
                                   !.pc = "q3",
                                   !.months_df = months_df,
                                   !.current_data = current_data,
                                   !.total_invoiced_current = total_invoiced_current,
                                   !.total_invoiced_previous = total_invoiced_previous,
                                   !.percent_diff = percent_diff_of(
                                       total_invoiced_current, total_invoiced_previous)]
    /\ UNCHANGED <<today, app, cash, now, cache, fetched>>

\* 1_Revenue.py line 137
RevQ3 ==
    /\ rev.pc = "q3"
    /\ \E q \in QueryOutcomes(ClientFrames) :
          IF ~q.ok THEN rev' = RevError("query")
          ELSE rev' = [rev EXCEPT !.pc = "q4", !.clients_returned = 1,
                                  !.current_clients_df = q.rows]
    /\ UNCHANGED <<today, app, cash, now, cache, fetched>>

\* 1_Revenue.py lines 138-268
RevQ4 ==
    /\ rev.pc = "q4"
    /\ \E q \in QueryOutcomes(ClientFrames) :
          IF ~q.ok THEN rev' = RevError("query")
          ELSE IF rev.current_clients_df = <<>> \/ q.rows = <<>>
          THEN rev' = [RevError("KeyError: 'client_name'") EXCEPT
                          !.clients_returned = 2, !.prev_clients_df = q.rows]
          ELSE LET joined == comparison_rows(fillna_clients(
                                 merge_outer(rev.current_clients_df, q.rows)))
               IN  \E sorted \in sort_values_revenue_desc(joined) :
                     rev' = [rev EXCEPT
                               !.pc = "done", !.clients_returned = 2,
                               !.prev_clients_df = q.rows,
                               !.join_order = [i \in 1..Len(joined) |-> joined[i].Client_name],
                               !.clients_merged = sorted \o
                                   <<totals_row(rev.total_invoiced_current,
                                                rev.total_invoiced_previous,
                                                rev.percent_diff)>>,
                               !.out = <<"title", "metric", "metric", "metric",
                                         "altair_chart", "subheader", "table">>]
    /\ UNCHANGED <<today, app, cash, now, cache, fetched>>

NextRevenue == RevCalendar \/ RevQ1 \/ RevQ2 \/ RevQ3 \/ RevQ4

SpecRevenue == InitSample /\ [][NextRevenue]_vars

(* --------------------------- 2_Cashflow.py ----------------------------- *)
\* what either cashflow query may return: no row, or one row dated at the
\* start of the fiscal year
CashFrames(start_date) ==
    SeqsUpTo([period : {start_date}, total_amount : {MaxAmount}], 1)

load_swallowing_failure(q) ==
    IF ~q.ok THEN [raised |-> FALSE, df |-> <<>>] ELSE [raised |-> FALSE, df |-> q.rows]

\* 2_Cashflow.py lines 64-67: client.query raising propagates, else the rows
load_day_by_day_data(q) ==
    IF ~q.ok THEN [raised |-> TRUE, df |-> <<>>] ELSE [raised |-> FALSE, df |-> q.rows]

\* 2_Cashflow.py lines 89-92
load_month_by_month_data(q) ==
    IF ~q.ok THEN [raised |-> TRUE, df |-> <<>>] ELSE [raised |-> FALSE, df |-> q.rows]

\* the key st.cache_data gives a call: the decorated function and its
\* arguments (the client is the one cached resource, the same in every call)
CacheKey(loader, start_date) == <<loader, start_date>>

\* an entry is served until it is ttl seconds old
CacheLive(key) == key \in DOMAIN cache /\ now - cache[key].stored < TTL

CachePut(key, df) ==
    [k \in DOMAIN cache \cup {key} |->
        IF k = key THEN [value |-> df, stored |-> now] ELSE cache[k]]

\* the times of the last two fetches of (loader, start date) that returned
FetchedAt(loader, start_date) ==
    IF <<loader, start_date>> \in DOMAIN fetched
    THEN fetched[<<loader, start_date>>] ELSE <<>>

RecordFetch(loader, start_date) ==
    LET old == FetchedAt(loader, start_date)
        new == IF Len(old) = 2 THEN <<old[2], now>> ELSE Append(old, now)
    IN  [k \in DOMAIN fetched \cup {<<loader, start_date>>} |->
            IF k = <<loader, start_date>> THEN new ELSE fetched[k]]

\* 2_Cashflow.py lines 114-143
CashDay ==
    /\ cash.pc = "day"
    /\ LET key == CacheKey("load_day_by_day_data", cash.start_date_str)
       IN  IF CacheLive(key)
           THEN /\ cash' = [cash EXCEPT
                              !.pc = "month", !.day_load = "hit", !.day_at = now,
                              !.day_df = cache[key].value,
                              !.out = Append(@, IF cache[key].value = <<>>
                                                THEN "info" ELSE "altair_chart")]
                /\ UNCHANGED <<cache, fetched>>
           ELSE \E q \in QueryOutcomes(CashFrames(cash.start_date_str)) :
                  LET r == load_day_by_day_data(q)
                  IN  /\ fetched' = IF q.ok
                                    THEN RecordFetch("load_day_by_day_data",
                                                     cash.start_date_str)
                                    ELSE fetched
                      /\ IF r.raised
                         THEN /\ cash' = [cash EXCEPT
                                            !.pc = "done", !.day_load = "raised",
                                            !.day_at = now, !.error = "query",
                                            !.out = Append(@, "exception")]
                              /\ UNCHANGED cache
                         ELSE /\ cash' = [cash EXCEPT
                                            !.pc = "month",
                                            !.day_load = "fetched",
                                            !.day_at = now, !.day_df = r.df,
                                            !.out = Append(@, IF r.df = <<>>
                                                              THEN "info" ELSE "altair_chart")]
                              /\ cache' = CachePut(key, r.df)
    /\ UNCHANGED <<today, app, rev, now>>

\* 2_Cashflow.py lines 145-184
CashMonth ==
    /\ cash.pc = "month"
    /\ LET key == CacheKey("load_month_by_month_data", cash.start_date_str)
       IN  IF CacheLive(key)
           THEN /\ cash' = [cash EXCEPT
                              !.pc = "done", !.month_load = "hit", !.month_at = now,
                              !.month_df = cache[key].value,
                              !.out = @ \o <<"subheader",
                                             IF cache[key].value = <<>>
                                             THEN "info" ELSE "table">>]
                /\ UNCHANGED <<cache, fetched>>
           ELSE \E q \in QueryOutcomes(CashFrames(cash.start_date_str)) :
                  LET r == load_month_by_month_data(q)
                  IN  /\ fetched' = IF q.ok
                                    THEN RecordFetch("load_month_by_month_data",
                                                     cash.start_date_str)
                                    ELSE fetched
                      /\ IF r.raised
                         THEN /\ cash' = [cash EXCEPT
                                            !.pc = "done", !.month_load = "raised",
                                            !.month_at = now, !.error = "query",
                                            !.out = Append(@, "exception")]
                              /\ UNCHANGED cache
                         ELSE /\ cash' = [cash EXCEPT
                                            !.pc = "done",
                                            !.month_load = "fetched",
                                            !.month_at = now, !.month_df = r.df,
                                            !.out = @ \o <<"subheader",
                                                           IF r.df = <<>>
                                                           THEN "info" ELSE "table">>]
                              /\ cache' = CachePut(key, r.df)
    /\ UNCHANGED <<today, app, rev, now>>

\* the page is requested again: the script runs from the top
CashRerun ==
    /\ cash.pc = "done"
    /\ cash' = CashIdle
    /\ UNCHANGED <<today, app, rev, now, cache, fetched>>

\* time passes between requests
Tick ==
    /\ now + TickSeconds <= MaxClock
    /\ now' = now + TickSeconds
    /\ UNCHANGED <<today, app, rev, cash, cache, fetched>>

NextCashflow == CashCalendar \/ CashDay \/ CashMonth \/ CashRerun \/ Tick

SpecCashflow == InitSample /\ [][NextCashflow]_vars

Next == NextApp \/ NextRevenue \/ NextCashflow

Spec == InitSample /\ [][Next]_vars

\* a comparison table was shown by a render that ended without error
TableBuilt == rev.pc = "done" /\ rev.error = "none"

NonTotalRows(t) == SelectSeq(t, LAMBDA r : r.Client_name # "Total")

RECURSIVE SumCurrent(_)
SumCurrent(t) == IF t = <<>> THEN 0 ELSE Head(t).Revenue_YTD + SumCurrent(Tail(t))

RECURSIVE SumPrevious(_)
SumPrevious(t) ==
    IF t = <<>> THEN 0 ELSE Head(t).Revenue_previous_YTD + SumPrevious(Tail(t))

\* C1: in every comparison table of a successful render the Total row's
\* current amount is the sum of the current amounts of the other rows and
\* its previous amount the sum of their previous amounts, whatever the
\* monthly and the per-client queries returned.
C1_TotalRowIsSumOfRows ==
    TableBuilt =>
        LET t == rev.clients_merged
            total == t[Len(t)]
        IN  /\ total.Client_name = "Total"
            /\ total.Revenue_YTD = SumCurrent(NonTotalRows(t))
            /\ total.Revenue_previous_YTD = SumPrevious(NonTotalRows(t))

PercentRule(current, previous, x) ==
    /\ previous = 0 => (~x.defined /\ format_pct(x) = "-")
    /\ previous # 0 => (x.defined /\ x.num * previous = (current - previous) * 100 * x.den)

\* C2: for every row of the comparison table, the Total row included, and
\* for the year-on-year metric: a previous amount of 0 gives the undefined
\* marker (shown as '-'), never 0; a nonzero previous amount gives
\* (current - previous) / previous * 100.
C2_PercentUndefinedOnZeroPrevious ==
    /\ TableBuilt =>
          PercentRule(rev.total_invoiced_current, rev.total_invoiced_previous,
                      rev.percent_diff)
    /\ TableBuilt =>
          \A i \in 1..Len(rev.clients_merged) :
              PercentRule(rev.clients_merged[i].Revenue_YTD,
                          rev.clients_merged[i].Revenue_previous_YTD,
                          rev.clients_merged[i].Pct_Difference)

\* C5: for any current and previous per-client results, either possibly
\* empty, the table before the Total row holds every key of either input
\* exactly once and no other key, the amount of a side lacking the key is
\* 0, and Difference is current minus previous.
C5_OuterJoinCoversEveryKey ==
    rev.clients_returned = 2 =>
        LET cur == rev.current_clients_df
            prev == rev.prev_clients_df
            rows == NonTotalRows(rev.clients_merged)
            keys == FrameKeys(cur) \cup FrameKeys(prev)
        IN  /\ rev.error = "none"
            /\ Len(rows) = Cardinality(keys)
            /\ {rows[i].Client_name : i \in 1..Len(rows)} = keys
            /\ \A i \in 1..Len(rows) :
                  LET k == rows[i].Client_name
                  IN  /\ rows[i].Revenue_YTD =
                            IF k \in FrameKeys(cur) THEN FrameAmount(cur, k) ELSE 0
                      /\ rows[i].Revenue_previous_YTD =
                            IF k \in FrameKeys(prev) THEN FrameAmount(prev, k) ELSE 0
                      /\ rows[i].Difference =
                            rows[i].Revenue_YTD - rows[i].Revenue_previous_YTD

JoinPosition(name) == CHOOSE i \in 1..Len(rev.join_order) : rev.join_order[i] = name

\* C8: in every comparison table the rows other than Total are in
\* non-increasing order of the current amount, rows of equal current amount
\* keep the order the join gave them, and the one row keyed 'Total' is last.
C8_SortedStableTotalLast ==
    TableBuilt =>
        LET t == rev.clients_merged
            n == Len(t)
        IN  /\ n >= 1
            /\ t[n].Client_name = "Total"
            /\ \A i \in 1..(n - 1) : t[i].Client_name # "Total"
            /\ \A i, j \in 1..(n - 1) :
                  i < j =>
                    /\ t[i].Revenue_YTD >= t[j].Revenue_YTD
                    /\ t[i].Revenue_YTD = t[j].Revenue_YTD =>
                          JoinPosition(t[i].Client_name) < JoinPosition(t[j].Client_name)

Shown(out, what) == \E i \in 1..Len(out) : out[i] = what

Errors(out) == Cardinality({i \in 1..Len(out) : out[i] \in {"error", "exception"}})

\* C9: when a query of a render raises, the render ends with exactly one
\* surfaced error and has emitted no chart and no table, on every page.
C9_QueryFailureShowsNoPartialOutput ==
    /\ app.error = "query" =>
          /\ Errors(app.out) = 1
          /\ ~Shown(app.out, "altair_chart") /\ ~Shown(app.out, "table")
    /\ rev.error = "query" =>
          /\ Errors(rev.out) = 1
          /\ ~Shown(rev.out, "altair_chart") /\ ~Shown(rev.out, "table")
    /\ cash.error = "query" =>
          /\ Errors(cash.out) = 1
          /\ ~Shown(cash.out, "altair_chart") /\ ~Shown(cash.out, "table")

FetchWithin(times, at, ttl) ==
    \E i \in 1..Len(times) : times[i] <= at /\ at < times[i] + ttl

credential_keys ==
    <<"type", "project_id", "private_key_id", "private_key", "client_email",
      "client_id", "auth_uri", "token_uri", "auth_provider_x509_cert_url",
      "client_x509_cert_url">>

CredentialKeySet == {credential_keys[i] : i \in 1..Len(credential_keys)}

\* 2_Cashflow.py line 36: every key whose environment variable is unset
missing_vars(absent) == {k \in CredentialKeySet : k \in absent}

\* 1_Revenue.py lines 11-22: the dict literal reads st.secrets["gcp"][k] key
\* by key, and the first absent key raises KeyError naming that key
first_missing_secret(absent) ==
    LET i == CHOOSE i \in 1..Len(credential_keys) :
                 /\ credential_keys[i] \in absent
                 /\ \A j \in 1..(i - 1) : credential_keys[j] \notin absent
    IN  {credential_keys[i]}

\* app.py lines 8-12: the one parameter is the key file named by
\* GOOGLE_APPLICATION_CREDENTIALS; bigquery.Client() raises when it is absent
AppClient ==
    /\ app.pc = "idle" /\ app.client = "none"
    /\ \E absent \in SUBSET {"bigquery.json"} :
          IF absent = {}
          THEN app' = [app EXCEPT !.client = "built"]
          ELSE app' = [app EXCEPT !.pc = "done", !.missing = absent,
                                  !.reported = absent,
                                  !.error = "DefaultCredentialsError",
                                  !.out = <<"exception">>]
    /\ UNCHANGED <<today, rev, cash, now, cache, fetched>>

\* 1_Revenue.py lines 8-26
RevCredentials ==
    /\ rev.pc = "idle" /\ rev.client = "none"
    /\ \E absent \in SUBSET CredentialKeySet :
          IF absent = {}
          THEN rev' = [rev EXCEPT !.client = "built"]
          ELSE rev' = [rev EXCEPT !.pc = "done", !.missing = absent,
                                  !.reported = first_missing_secret(absent),
                                  !.error = "KeyError",
                                  !.out = <<"title", "exception">>]
    /\ UNCHANGED <<today, app, cash, now, cache, fetched>>

\* 2_Cashflow.py lines 16-41 and 96-101
CashCredentials ==
    /\ cash.pc = "idle" /\ cash.client = "none"
    /\ \E absent \in SUBSET CredentialKeySet :
          IF missing_vars(absent) = {}
          THEN cash' = [cash EXCEPT !.client = "built"]
          ELSE cash' = [cash EXCEPT !.pc = "done", !.missing = absent,
                                   !.reported = missing_vars(absent),
                                   !.error = "stop",
                                   !.out = <<"title", "error">>]
    /\ UNCHANGED <<today, app, rev, now, cache, fetched>>

\* one script run renders one page
OnlyApp == rev = RevIdle /\ cash = CashIdle
OnlyRev == app = AppIdle /\ cash = CashIdle
OnlyCash == app = AppIdle /\ rev = RevIdle

NextCredentials ==
    \/ OnlyApp /\ AppClient
    \/ OnlyApp /\ AppCalendar
    \/ OnlyApp /\ AppRender
    \/ OnlyRev /\ RevCredentials
    \/ OnlyRev /\ RevCalendar
    \/ OnlyRev /\ RevQ1
    \/ OnlyCash /\ CashCredentials
    \/ OnlyCash /\ CashCalendar
    \/ OnlyCash /\ CashDay

SpecCredentials == InitSample /\ [][NextCredentials]_vars

NoQueryIssued ==
    /\ app.missing # {} => (~app.returned /\ app.error # "query")
    /\ rev.missing # {} => (rev.current_data = <<>> /\ rev.error # "query")
    /\ cash.missing # {} => (cash.day_load = "none" /\ cash.month_load = "none")

\* C11: when required connection parameters are absent, the render stops
\* before any query is issued and shows a single message naming every
\* missing parameter, on every page that builds a backend client.
C11_MissingParametersAllReported ==
    /\ NoQueryIssued
    /\ app.missing # {} =>
          (app.pc = "done" /\ Errors(app.out) = 1 /\ app.reported = app.missing)
    /\ rev.missing # {} =>
          (rev.pc = "done" /\ Errors(rev.out) = 1 /\ rev.reported = rev.missing)
    /\ cash.missing # {} =>
          (cash.pc = "done" /\ Errors(cash.out) = 1 /\ cash.reported = cash.missing)
====
